---- MODULE Spec2Model ----
(***************************************************************************)
(* A model of tools/inspect_links.py: the URL normaliser (parse_url,       *)
(* scrub_parameters), the section-scoped link extractor (extract_links),   *)
(* the cross-file duplicate tracker (inspect_files), file discovery        *)
(* (get_recent_files) and the exit contract of the __main__ block.         *)
(*                                                                         *)
(* A Python str is a sequence of one-character strings, so that splitting, *)
(* lower-casing, percent-decoding and re-encoding are computed character   *)
(* by character as the library does.                                       *)
(***************************************************************************)
EXTENDS Integers, Sequences, FiniteSets, TLC

VARIABLES
    pc,          \* position of the program
    listing,     \* os.listdir(dir): the directory's file names
    count,       \* --num-recent
    file_list,   \* get_recent_files' result
    fi,          \* inspect_files: number of files taken from file_list
    input,       \* parse_url's argument when it is applied on its own
    strict_mode, \* extract_links: the section flag
    urls,        \* extract_links: the links collected for the current file
    li,          \* inspect_files: number of links of the file already looked up
    linkset,     \* inspect_files: normalised link -> file it was first seen in
    warnings,    \* Warnings.warnings, the process-wide log
    exit_code,   \* the process's exit status once it has ended, -1 before
    nelems,      \* number of elements of the current document walked so far
    nlinks,      \* number of link elements walked so far in the run
    hist         \* history of the run, read only by the properties

vars == <<pc, listing, count, file_list, input, fi, strict_mode, urls, li,
          linkset, warnings, exit_code, nelems, nlinks, hist>>

-----------------------------------------------------------------------------
(* Bounds of the model *)

\* most parameters in a generated query string
MaxParams == 2
\* most elements (headings and links) in one document
MaxElems == 3
\* most link elements in the documents of one run
MaxLinks == 3
\* most names in a directory listing
MaxDir == 3
\* largest --num-recent tried
MaxCount == 3

-----------------------------------------------------------------------------
(* Characters and strings *)

Lowers == <<"a","b","c","d","e","f","g","h","i","j","k","l","m","n","o","p","q","r","s","t","u","v","w","x","y","z">>
Uppers == <<"A","B","C","D","E","F","G","H","I","J","K","L","M","N","O","P","Q","R","S","T","U","V","W","X","Y","Z">>
Digits == {"0","1","2","3","4","5","6","7","8","9"}
Range(s) == {s[i] : i \in DOMAIN s}
Letters == Range(Lowers) \cup Range(Uppers)

\* position of c in the sequence s, 0 when absent
IndexIn(s, c) ==
    IF \E i \in DOMAIN s : s[i] = c
    THEN CHOOSE i \in DOMAIN s : s[i] = c /\ \A j \in 1..(i-1) : s[j] # c
    ELSE 0

\* str.find(c, start) with positions counted from 1; 0 when not found
find(s, c, start) ==
    IF \E i \in start..Len(s) : s[i] = c
    THEN CHOOSE i \in start..Len(s) : s[i] = c /\ \A j \in start..(i-1) : s[j] # c
    ELSE 0

lower_char(c) ==
    LET i == IndexIn(Uppers, c) IN IF i > 0 THEN Lowers[i] ELSE c

\* str.lower() on the ASCII strings of the model
lower(s) == [i \in DOMAIN s |-> lower_char(s[i])]

\* the slice s[from..to], positions counted from 1 and clipped to the string
\* as Python clips a slice
slice(s, from, to) ==
    LET hi == IF to > Len(s) THEN Len(s) ELSE to
    IN [i \in 1..(hi - from + 1) |-> s[from + i - 1]]

\* s[from:] counted from 1
Tail_from(s, from) == slice(s, from, Len(s))

\* str.split(sep) for a one-character separator
RECURSIVE split(_, _)
split(s, sep) ==
    LET i == find(s, sep, 1) IN
    IF i = 0 THEN <<s>>
    ELSE <<slice(s, 1, i-1)>> \o split(Tail_from(s, i+1), sep)

\* sep.join(parts)
RECURSIVE join(_, _)
join(parts, sep) ==
    IF parts = <<>> THEN <<>>
    ELSE IF Len(parts) = 1 THEN parts[1]
    ELSE parts[1] \o sep \o join(Tail(parts), sep)

\* str.replace(a, b) for one-character a and b
replace(s, a, b) == [i \in DOMAIN s |-> IF s[i] = a THEN b ELSE s[i]]

\* str.lstrip(_WHATWG_C0_CONTROL_OR_SPACE); the space is the only such
\* character in the model's alphabet
RECURSIVE lstrip(_)
lstrip(s) == IF s # <<>> /\ s[1] = " " THEN lstrip(Tail(s)) ELSE s

-----------------------------------------------------------------------------
(* Percent-encoding: urllib.parse.unquote and quote_plus *)

\* the escapes of the characters of the model's alphabet: <<char, hex, hex>>
Escapes == { <<" ","2","0">>, <<"#","2","3">>, <<"%","2","5">>, <<"&","2","6">>,
             <<"+","2","B">>, <<"/","2","F">>, <<":","3","A">>, <<"=","3","D">>,
             <<"?","3","F">>, <<"_","5","F">> }

upper_char(c) ==
    LET i == IndexIn(Lowers, c) IN IF i > 0 THEN Uppers[i] ELSE c

\* the character a %XY escape stands for (hex digits in either case)
Unescaped(x, y) ==
    LET hit == {e \in Escapes : e[2] = upper_char(x) /\ e[3] = upper_char(y)}
    IN IF hit = {} THEN <<>> ELSE <<(CHOOSE e \in hit : TRUE)[1]>>

\* urllib.parse.unquote: every well-formed %XY is replaced by its character
RECURSIVE unquote(_)
unquote(s) ==
    IF s = <<>> THEN <<>>
    ELSE IF s[1] = "%" /\ Len(s) >= 3 /\ Unescaped(s[2], s[3]) # <<>>
         THEN Unescaped(s[2], s[3]) \o unquote(Tail_from(s, 4))
         ELSE <<s[1]>> \o unquote(Tail(s))

\* characters quote() never escapes
always_safe == Letters \cup Digits \cup {"_", ".", "-", "~"}

quote_char(c) ==
    IF c \in always_safe THEN <<c>>
    ELSE IF c = " " THEN <<"+">>
    ELSE LET hit == {e \in Escapes : e[1] = c}
         IN IF hit = {} THEN <<c>>
            ELSE LET e == CHOOSE e \in hit : TRUE IN <<"%", e[2], e[3]>>

\* urllib.parse.quote_plus(s) with the default safe=''
RECURSIVE quote_plus(_)
quote_plus(s) ==
    IF s = <<>> THEN <<>> ELSE quote_char(s[1]) \o quote_plus(Tail(s))

-----------------------------------------------------------------------------
(* urllib.parse.parse_qs and urlencode *)

\* parse_qsl(qs): the (name, value) pairs of a query string, in order.  A
\* piece that is empty, has no '=' or has an empty value is skipped
\* (keep_blank_values is False by default).
RECURSIVE pairs_of(_)
pairs_of(pieces) ==
    IF pieces = <<>> THEN <<>>
    ELSE LET nv == pieces[1]
             eq == find(nv, "=", 1)
             name  == slice(nv, 1, eq - 1)
             value == Tail_from(nv, eq + 1)
         IN IF nv = <<>> \/ eq = 0 \/ value = <<>>
            THEN pairs_of(Tail(pieces))
            ELSE << <<unquote(replace(name, "+", " ")),
                      unquote(replace(value, "+", " "))>> >>
                 \o pairs_of(Tail(pieces))

parse_qsl(qs) == pairs_of(split(qs, "&"))

\* parse_qs(qs): a dict name -> list of values, as the sequence of its
\* items in insertion order (the order of each name's first occurrence)
RECURSIVE group(_, _)
group(pairs, dict) ==
    IF pairs = <<>> THEN dict
    ELSE LET k == pairs[1][1]
             v == pairs[1][2]
             at == IF \E i \in DOMAIN dict : dict[i][1] = k
                   THEN CHOOSE i \in DOMAIN dict : dict[i][1] = k ELSE 0
         IN group(Tail(pairs),
                  IF at = 0 THEN Append(dict, <<k, <<v>> >>)
                  ELSE [dict EXCEPT ![at] = <<k, Append(dict[at][2], v)>>])

parse_qs(qs) == group(parse_qsl(qs), <<>>)

\* the k=v items urlencode(dict, doseq=True) makes of one dict item
RECURSIVE items_of(_, _)
items_of(k, vs) ==
    IF vs = <<>> THEN <<>>
    ELSE <<quote_plus(k) \o <<"=">> \o quote_plus(vs[1])>> \o items_of(k, Tail(vs))

RECURSIVE all_items(_)
all_items(dict) ==
    IF dict = <<>> THEN <<>>
    ELSE items_of(dict[1][1], dict[1][2]) \o all_items(Tail(dict))

\* urllib.parse.urlencode(dict, doseq=True)
urlencode(dict) == join(all_items(dict), <<"&">>)

-----------------------------------------------------------------------------
(* urllib.parse.urlsplit and urlunsplit (CPython 3.11) *)

scheme_chars == Letters \cup Digits \cup {"+", "-", "."}

uses_netloc == { <<"f","t","p">>, <<"h","t","t","p">>, <<"h","t","t","p","s">>, <<"f","i","l","e">>, <<"g","i","t">>, <<"w","s">>, <<"w","s","s">> }

\* first position >= start of one of '/', '?', '#'; Len(s)+1 when none
netloc_end(s, start) ==
    LET hits == {i \in start..Len(s) : s[i] \in {"/", "?", "#"}}
    IN IF hits = {} THEN Len(s) + 1
       ELSE CHOOSE i \in hits : \A j \in hits : i <= j

\* urlsplit, last step: the query is what follows the first '?' of the rest
split_query(scheme, netloc, url, fragment, q) ==
    [scheme |-> scheme, netloc |-> netloc,
     path |-> IF q > 0 THEN slice(url, 1, q - 1) ELSE url,
     query |-> IF q > 0 THEN Tail_from(url, q + 1) ELSE <<>>,
     fragment |-> fragment]

\* urlsplit: the fragment is what follows the first '#' of the rest
split_fragment(scheme, netloc, url, h) ==
    IF h > 0
    THEN split_query(scheme, netloc, slice(url, 1, h - 1), Tail_from(url, h + 1),
                     find(slice(url, 1, h - 1), "?", 1))
    ELSE split_query(scheme, netloc, url, <<>>, find(url, "?", 1))

\* urlsplit: a rest that starts with '//' has a netloc, which ends before
\* the first '/', '?' or '#'
split_netloc(scheme, url, delim) ==
    IF Len(url) >= 2 /\ url[1] = "/" /\ url[2] = "/"
    THEN split_fragment(scheme, slice(url, 3, delim - 1), Tail_from(url, delim),
                        find(Tail_from(url, delim), "#", 1))
    ELSE split_fragment(scheme, <<>>, url, find(url, "#", 1))

\* urlsplit: what precedes the first ':' is the scheme, lower-cased, when
\* it starts with a letter and is made of scheme characters
split_scheme(url, i) ==
    IF /\ i > 1
       /\ url[1] \in Letters
       /\ \A k \in 1..(i-1) : url[k] \in scheme_chars
    THEN split_netloc(lower(slice(url, 1, i - 1)), Tail_from(url, i + 1),
                      netloc_end(Tail_from(url, i + 1), 3))
    ELSE split_netloc(<<>>, url, netloc_end(url, 3))

urlsplit(link) == split_scheme(lstrip(link), find(lstrip(link), ":", 1))

\* urlunsplit, last steps: '?' and the query, '#' and the fragment, when
\* they are not empty
with_fragment(url, fragment) ==
    IF fragment # <<>> THEN url \o <<"#">> \o fragment ELSE url

with_query(url, query) ==
    IF query # <<>> THEN url \o <<"?">> \o query ELSE url

with_scheme(scheme, url) ==
    IF scheme # <<>> THEN scheme \o <<":">> \o url ELSE url

with_netloc(scheme, netloc, path) ==
    IF \/ netloc # <<>>
       \/ /\ scheme # <<>>
          /\ scheme \in uses_netloc
          /\ slice(path, 1, 2) # <<"/", "/">>
    THEN <<"/", "/">> \o netloc
         \o (IF path # <<>> /\ path[1] # "/" THEN <<"/">> ELSE <<>>)
         \o path
    ELSE path

urlunsplit(scheme, netloc, path, query, fragment) ==
    with_fragment(
        with_query(with_scheme(scheme, with_netloc(scheme, netloc, path)), query),
        fragment)

-----------------------------------------------------------------------------
(* The URL normaliser *)

TRACKING_PARAMETERS ==
    { <<"u","t","m","_","s","o","u","r","c","e">>, <<"u","t","m","_","c","a","m","p","a","i","g","n">>, <<"u","t","m","_","m","e","d","i","u","m">>, <<"u","t","m","_","c","o","n","t","e","n","t">> }

\* a log that takes a new message at its front
warn_first(log, msg) == <<msg>> \o log

\* Warnings.warn: the message is appended to the log
warn(log, msg) == Append(log, msg)

\* the messages, each the sequence of the parts of its f-string
MsgMalformed == <<"p","o","s","s","i","b","l","y"," ","m","a","l","f","o","r","m","e","d"," ","l","i","n","k",":"," ">>
MsgTracking == <<"f","o","u","n","d"," ","t","r","a","c","k","i","n","g"," ","p","a","r","a","m","e","t","e","r","s"," ","o","n"," ">>
MsgSimplify == <<"l","i","n","k"," ","c","a","n"," ","b","e"," ","s","i","m","p","l","i","f","i","e","d",":"," ">>
MsgDuplicate == <<"p","o","s","s","i","b","l","e"," ","d","u","p","l","i","c","a","t","e"," ","l","i","n","k"," ">>

\* found_tracking: the names of the dict that are on the block-list, in order
found_tracking(dict) ==
    SelectSeq([i \in DOMAIN dict |-> dict[i][1]],
              LAMBDA k : k \in TRACKING_PARAMETERS)

\* filtered_dict: the items of the dict whose names are not on the block-list
filtered_dict(dict) ==
    SelectSeq(dict, LAMBDA kv : kv[1] \notin TRACKING_PARAMETERS)

\* scrub_parameters, after parse_qs: the warning and the query to keep
scrubbed(url, query_dict, log) ==
    [ret |-> IF filtered_dict(query_dict) = <<>> THEN <<>>
             ELSE urlencode(filtered_dict(query_dict)),
     log |-> IF found_tracking(query_dict) # <<>>
             THEN warn(log, <<MsgTracking, url, <<":"," ">>, found_tracking(query_dict)>>)
             ELSE log]

\* scrub_parameters(url, query): the query to keep and the log after the call
scrub_parameters(url, query, log) == scrubbed(url, parse_qs(query), log)

\* the log after parse_url's scheme check
scheme_checked(link, scheme, log) ==
    IF scheme \notin { <<"m","a","i","l","t","o">>, <<"h","t","t","p">>, <<"h","t","t","p","s">> }
    THEN warn(log, <<MsgMalformed, link>>)
    ELSE log

\* the log after parse_url's comparison of the result with its input
simplify_checked(link, reconstituted, log) ==
    IF reconstituted # link
    THEN warn(log, <<MsgSimplify, link, <<" ","-",">"," ">>, reconstituted>>)
    ELSE log

\* parse_url, the end: the result and the log after the comparison
reconstituted_as(link, reconstituted, log) ==
    [ret |-> reconstituted, log |-> simplify_checked(link, reconstituted, log)]

\* parse_url, after the clean-up of the query: the link is put together again
reconstitute(link, parsed_url, cleaned) ==
    reconstituted_as(link,
        urlunsplit(parsed_url.scheme, parsed_url.netloc, parsed_url.path,
                   cleaned.ret, parsed_url.fragment),
        cleaned.log)

\* parse_url, after the scheme check: a query that is not empty is cleaned
clean_query(link, parsed_url, log) ==
    reconstitute(link, parsed_url,
        IF parsed_url.query # <<>>
        THEN scrub_parameters(link, parsed_url.query, log)
        ELSE [ret |-> <<>>, log |-> log])

\* parse_url, after urlsplit
check_scheme(link, parsed_url, log) ==
    clean_query(link, parsed_url, scheme_checked(link, parsed_url.scheme, log))

\* parse_url(link): the normalised link and the log after the call
parse_url(link, log) == check_scheme(link, urlsplit(link), log)

-----------------------------------------------------------------------------
(* Section titles *)

STRICT_TITLES ==
    { <<"p","r","o","j","e","c","t","/","t","o","o","l","i","n","g"," ","u","p","d","a","t","e","s">>, <<"o","b","s","e","r","v","a","t","i","o","n","s","/","t","h","o","u","g","h","t","s">>,
      <<"r","u","s","t"," ","w","a","l","k","t","h","r","o","u","g","h","s">>, <<"m","i","s","c","e","l","l","a","n","e","o","u","s">> }

\* Python's None: no str is equal to it
None == <<"None">>

\* str(x)
str(x) == IF x = None THEN <<"N","o","n","e">> ELSE x

\* a test that compares the title as it is written
is_strict_title_cased(title) == str(title) \in STRICT_TITLES

is_strict_title(title) == lower(str(title)) \in STRICT_TITLES

-----------------------------------------------------------------------------
(* File discovery *)

\* the characters of file names in ASCII order
Ascii == <<" ","#","%","&","+","-",".","/","0","1","2","3","4","5","6","7","8","9",":","=","?","A","B","C","D","E","F","G","H","I","J","K","L","M","N","O","P","Q","R","S","T","U","V","W","X","Y","Z","_","a","b","c","d","e","f","g","h","i","j","k","l","m","n","o","p","q","r","s","t","u","v","w","x","y","z","~">>

ord(c) == IndexIn(Ascii, c)

\* a < b for two str, by code point
RECURSIVE str_lt(_, _)
str_lt(a, b) ==
    IF b = <<>> THEN FALSE
    ELSE IF a = <<>> THEN TRUE
    ELSE IF a[1] = b[1] THEN str_lt(Tail(a), Tail(b))
    ELSE ord(a[1]) < ord(b[1])

\* RE_FILENAME.match(name): the pattern \d\d\d\d-\d\d-\d\d-this-week-in-rust.md
\* is matched at the start of the name; its '.' stands for any character and
\* nothing anchors the end
RE_FILENAME_match(name) ==
    /\ Len(name) >= 31
    /\ \A i \in {1, 2, 3, 4, 6, 7, 9, 10} : name[i] \in Digits
    /\ name[5] = "-"
    /\ name[8] = "-"
    /\ slice(name, 11, 28) = <<"-","t","h","i","s","-","w","e","e","k","-","i","n","-","r","u","s","t">>
    /\ slice(name, 30, 31) = <<"m","d">>

\* list(filter(pred, l))
filter_matching(l) == SelectSeq(l, RE_FILENAME_match)

\* l with x put in front of the first element that is not below x
RECURSIVE insert_sorted(_, _)
insert_sorted(x, l) ==
    IF l = <<>> THEN <<x>>
    ELSE IF str_lt(l[1], x) THEN <<l[1]>> \o insert_sorted(x, Tail(l))
    ELSE <<x>> \o l

\* list.sort()
RECURSIVE sort(_)
sort(l) == IF l = <<>> THEN <<>> ELSE insert_sorted(l[1], sort(Tail(l)))

\* l[-n:]
last_slice(l, n) ==
    IF n > 0 THEN Tail_from(l, IF n >= Len(l) THEN 1 ELSE Len(l) - n + 1)
    ELSE Tail_from(l, 1 - n)

\* os.path.join(dir, f) for a relative name f
path_join(dir, f) ==
    IF dir = <<>> \/ dir[Len(dir)] = "/" THEN dir \o f ELSE dir \o <<"/">> \o f

\* get_recent_files(dir, count) on the listing os.listdir returned:
\* raised tells whether it raised, ret is the list it returned
get_recent_files(dir, dir_listing, n) ==
    IF dir_listing = <<>> THEN [raised |-> TRUE, ret |-> <<>>]
    ELSE LET matching == filter_matching(dir_listing) IN
         IF matching = <<>> THEN [raised |-> TRUE, ret |-> <<>>]
         ELSE LET recent == last_slice(sort(matching), n)
              IN [raised |-> FALSE,
                  ret |-> [i \in DOMAIN recent |-> path_join(dir, recent[i])]]

-----------------------------------------------------------------------------
(* The inputs of the model *)

\* --path
Dir == <<"c","o","n","t","e","n","t">>

NamePool ==
    { <<"2","0","2","3","-","1","2","-","2","7","-","t","h","i","s","-","w","e","e","k","-","i","n","-","r","u","s","t",".","m","d">>,
      <<"2","0","2","4","-","0","1","-","0","3","-","t","h","i","s","-","w","e","e","k","-","i","n","-","r","u","s","t",".","m","d">>,
      <<"2","0","2","4","-","0","1","-","1","0","-","t","h","i","s","-","w","e","e","k","-","i","n","-","r","u","s","t",".","m","d">>,
      <<"R","E","A","D","M","E",".","m","d">> }

\* the sequences without repetition over S of length at most n
RECURSIVE ListsOver(_, _)
ListsOver(S, n) ==
    IF n = 0 THEN {<<>>}
    ELSE LET shorter == ListsOver(S, n - 1)
         IN shorter \cup
            {Append(l, x) : <<l, x>> \in
                {p \in shorter \X S : p[2] \notin Range(p[1])}}

Listings == ListsOver(NamePool, MaxDir)

\* the elements a rendered document is made of
Link(href) == [name |-> "a", href |-> href, string |-> None]
Heading(level, string) ==
    [name |-> <<"h1", "h2", "h3", "h4", "h5", "h6">>[level],
     href |-> None, string |-> string]

LinkPool ==
    { <<"h","t","t","p","s",":","/","/","h","/","p">>,
      <<"h","t","t","p","s",":","/","/","h","/","p","?","u","t","m","_","s","o","u","r","c","e","=","x">>,
      <<"f","t","p",":","/","/","h","/","p","?","u","t","m","_","m","e","d","i","u","m","=","y">> }

\* headings of the levels the walk looks at and of one it does not; a
\* heading's .string is None when the heading holds several nodes
HeadingPool ==
    { Heading(2, <<"M","i","s","c","e","l","l","a","n","e","o","u","s">>), Heading(2, <<"C","r","a","t","e"," ","o","f"," ","t","h","e"," ","W","e","e","k">>),
      Heading(4, <<"M","i","s","c","e","l","l","a","n","e","o","u","s"," ","l","i","n","k","s">>), Heading(3, None),
      Heading(5, <<"M","i","s","c","e","l","l","a","n","e","o","u","s">>), Heading(5, <<"C","r","a","t","e"," ","o","f"," ","t","h","e"," ","W","e","e","k">>) }

Elements == {Link(l) : l \in LinkPool} \cup HeadingPool

\* the parts a generated URL is made of
SchemePool == { <<>>, <<"h","t","t","p","s",":">>, <<"H","T","T","P",":">>, <<"f","t","p",":">>, <<"m","a","i","l","t","o",":">> }
NetlocPool == { <<>>, <<"/","/","h">>, <<"/","/">> }
PathPool == { <<>>, <<"/","p">>, <<"/","/">> }
FragmentPool == { <<>>, <<"#","f">> }
ParamPool ==
    { <<"u","t","m","_","s","o","u","r","c","e","=","x">>, <<"u","t","m","_","s","o","u","r","c","e","=">>, <<"u","t","m","_","s","o","u","r","c","e">>, <<"u","t","m","_","m","e","d","i","u","m","=","y">>,
      <<"u","t","m","%","5","F","s","o","u","r","c","e","=","x">>, <<"r","e","f","=","y">>, <<"r","e","f","=","z">>, <<"r","e","f","=">>, <<"r","e","f","=","%","2","0">>, <<"t">> }

\* the query strings of at most n parameters from the pool
RECURSIVE ParamLists(_)
ParamLists(n) ==
    IF n = 0 THEN {<<>>}
    ELSE LET shorter == ParamLists(n - 1)
         IN shorter \cup {Append(l, p) : <<l, p>> \in shorter \X ParamPool}

QueryPool ==
    {<<>>} \cup {<<"?">> \o join(l, <<"&">>) : l \in ParamLists(MaxParams)}

UrlInputs ==
    {u[1] \o u[2] \o u[3] \o u[4] \o u[5] :
        u \in SchemePool \X NetlocPool \X PathPool \X QueryPool \X FragmentPool}

-----------------------------------------------------------------------------
(* The program *)

\* find_all(tags) returns the elements with these names, in document order
tags == {"a", "h1", "h2", "h3", "h4"}

\* dict.get(key)
get(dict, key) == IF key \in DOMAIN dict THEN dict[key] ELSE None

\* the truth value of a str or None
truthy(x) == x # None /\ x # <<>>

\* dict[key] = value
put(dict, key, value) ==
    [k \in DOMAIN dict \cup {key} |-> IF k = key THEN value ELSE dict[k]]

EmptyDict == [k \in {} |-> None]

\* a walk that takes the links of every section
takes_every_link(strict) == TRUE

\* extract_links' test on a link element: the link is taken in strict mode
takes_link(strict) == strict

\* a test that reports a hit only when it is in another file
is_collision_elsewhere(collision, file) == truthy(collision) /\ collision # file

\* inspect_files' test on a looked-up link: a hit is reported, a miss
\* inserted; the test does not look at the file the walk is in
is_collision(collision, file) == truthy(collision)

\* an update that makes the current file the link's entry on a hit too
recorded_last(dict, url, file, collision) == put(dict, url, file)

\* inspect_files' update of linkset for a looked-up link: a hit leaves the
\* entry as it is, a miss inserts the current file
recorded(dict, url, file, collision) ==
    IF is_collision(collision, file) THEN dict ELSE put(dict, url, file)

\* a process that ends with status 0 whatever the log holds
status_always_zero(log) == 0

\* the status the process ends with when the log is read at the end
status_of(log) == IF log # <<>> THEN 1 ELSE 0

\* what the history records before any heading of a document is met
NoHeading == <<"no heading">>

normalised(href) == parse_url(href, <<>>).ret

InitHist ==
    [elem |-> "", calls |-> 0, lastAny |-> NoHeading, last14 |-> NoHeading,
     dropped |-> {}, droppedAll |-> {},
     strict_links |-> <<>>, cause |-> <<>>, mark |-> <<>>]

\* the history after the document produced element e while the flag was
\* strict, parse_url was called c times and the log grew by n messages
Observed(e, strict, c, n) ==
    [hist EXCEPT
        !.elem = e.name,
        !.calls = @ + c,
        !.lastAny = IF e.name # "a" THEN e.string ELSE @,
        !.last14 = IF e.name \in tags \ {"a"} THEN e.string ELSE @,
        !.dropped = IF e.name = "a" /\ ~strict
                    THEN @ \cup {normalised(e.href)} ELSE @,
        !.strict_links = IF e.name = "a" /\ strict
                         THEN [@ EXCEPT ![fi] = Append(@, normalised(e.href))]
                         ELSE @,
        !.cause = @ \o [i \in 1..n |->
                          [file |-> fi, link |-> Len(urls) + 1, phase |-> "normalise"]]]

Init ==
    /\ pc = "main"
    /\ listing \in Listings
    /\ count \in 0..MaxCount
    /\ file_list = <<>>
    /\ fi = 0
    /\ input = None
    /\ strict_mode = FALSE
    /\ urls = <<>>
    /\ li = 0
    /\ linkset = EmptyDict
    /\ warnings = <<>>
    /\ exit_code = -1
    /\ nelems = 0
    /\ nlinks = 0
    /\ hist = InitHist

\* main: file_list = get_recent_files(args.path, args.num_recent); an
\* exception it raises ends the process with status 1
GetRecentFiles ==
    /\ pc = "main"
    /\ LET r == get_recent_files(Dir, listing, count) IN
       IF r.raised
       THEN /\ pc' = "aborted"
            /\ exit_code' = 1
            /\ UNCHANGED file_list
       ELSE /\ pc' = "got_files"
            /\ file_list' = r.ret
            /\ UNCHANGED exit_code
    /\ UNCHANGED <<listing, count, input, fi, strict_mode, urls, li, linkset,
                   warnings, nelems, nlinks, hist>>

\* main: inspect_files(file_list) is entered with the file list alone
EnterInspectFiles ==
    /\ pc = "got_files"
    /\ pc' = "files"
    /\ linkset' = EmptyDict
    /\ listing' = <<>>
    /\ count' = 0
    /\ UNCHANGED <<file_list, input, fi, strict_mode, urls, li, warnings,
                   exit_code, nelems, nlinks, hist>>

\* inspect_files takes the next file; inspect_file reads and renders it and
\* extract_links starts its walk
OpenFile ==
    /\ pc = "files"
    /\ fi < Len(file_list)
    /\ fi' = fi + 1
    /\ strict_mode' = FALSE
    /\ urls' = <<>>
    /\ nelems' = 0
    /\ pc' = "walk"
    /\ hist' = [hist EXCEPT !.strict_links = Append(@, <<>>)]
    /\ UNCHANGED <<listing, count, file_list, input, li, linkset, warnings,
                   exit_code, nlinks>>

\* inspect_file: open(filename).read() raises, which ends the process
ReadFails ==
    /\ pc = "files"
    /\ fi < Len(file_list)
    /\ pc' = "aborted"
    /\ exit_code' = 1
    /\ UNCHANGED <<listing, count, file_list, input, fi, strict_mode, urls, li,
                   linkset, warnings, nelems, nlinks, hist>>

\* extract_links: the walk is at a link element
WalkLink(e) ==
    /\ pc = "walk"
    /\ nelems < MaxElems
    /\ nlinks < MaxLinks
    /\ e.name = "a"
    /\ nelems' = nelems + 1
    /\ nlinks' = nlinks + 1
    /\ IF takes_link(strict_mode)
       THEN LET r == parse_url(e.href, warnings) IN
            /\ urls' = Append(urls, r.ret)
            /\ warnings' = r.log
            /\ hist' = Observed(e, strict_mode, 1, Len(r.log) - Len(warnings))
       ELSE /\ UNCHANGED <<urls, warnings>>
            /\ hist' = Observed(e, strict_mode, 0, 0)
    /\ UNCHANGED <<pc, listing, count, file_list, input, fi, strict_mode, li,
                   linkset, exit_code>>

\* extract_links: the walk is at a heading element
WalkHeading(e) ==
    /\ pc = "walk"
    /\ nelems < MaxElems
    /\ e.name \in tags \ {"a"}
    /\ nelems' = nelems + 1
    /\ strict_mode' = is_strict_title(e.string)
    /\ hist' = Observed(e, strict_mode, 0, 0)
    /\ UNCHANGED <<pc, listing, count, file_list, input, fi, urls, li, linkset,
                   warnings, exit_code, nlinks>>

\* the document holds an element find_all does not return
SkipElement(e) ==
    /\ pc = "walk"
    /\ nelems < MaxElems
    /\ e.name \notin tags
    /\ nelems' = nelems + 1
    /\ hist' = Observed(e, strict_mode, 0, 0)
    /\ UNCHANGED <<pc, listing, count, file_list, input, fi, strict_mode, urls,
                   li, linkset, warnings, exit_code, nlinks>>

\* extract_links returns urls, which ends its walk and its local variables;
\* inspect_files starts on the file's links
EndWalk ==
    /\ pc = "walk"
    /\ pc' = "links"
    /\ li' = 0
    /\ strict_mode' = FALSE
    /\ nelems' = 0
    /\ hist' = [hist EXCEPT
                    !.elem = "",
                    !.lastAny = NoHeading, !.last14 = NoHeading,
                    !.dropped = {},
                    !.droppedAll = IF fi = 1 THEN hist.dropped
                                   ELSE @ \cap hist.dropped]
    /\ UNCHANGED <<listing, count, file_list, input, fi, urls, linkset,
                   warnings, exit_code, nlinks>>

\* inspect_files: the next link of the file is looked up in linkset
CheckLink ==
    /\ pc = "links"
    /\ li < Len(urls)
    /\ li' = li + 1
    /\ LET url == urls[li + 1]
           file == file_list[fi]
           collision == get(linkset, url)
       IN IF is_collision(collision, file)
          THEN /\ warnings' = warn(warnings,
                     <<MsgDuplicate, url, <<" ","i","n"," ","f","i","l","e"," ">>, file,
                       <<" ","(","a","l","s","o"," ","f","o","u","n","d"," ","i","n"," ">>, collision>>)
               /\ hist' = [hist EXCEPT !.cause = Append(@,
                              [file |-> fi, link |-> li + 1, phase |-> "duplicate"])]
          ELSE UNCHANGED <<warnings, hist>>
    /\ linkset' = recorded(linkset, urls[li + 1], file_list[fi],
                           get(linkset, urls[li + 1]))
    /\ UNCHANGED <<pc, listing, count, file_list, input, fi, strict_mode, urls,
                   exit_code, nelems, nlinks>>

\* inspect_files: the file's links are done
EndLinks ==
    /\ pc = "links"
    /\ li = Len(urls)
    /\ pc' = "files"
    /\ UNCHANGED <<listing, count, file_list, input, fi, strict_mode, urls, li,
                   linkset, warnings, exit_code, nelems, nlinks, hist>>

\* __main__: main has returned; the log is read and the process ends
Report ==
    /\ pc = "files"
    /\ fi = Len(file_list)
    /\ pc' = "exited"
    /\ exit_code' = status_of(warnings)
    /\ UNCHANGED <<listing, count, file_list, input, fi, strict_mode, urls, li,
                   linkset, warnings, nelems, nlinks, hist>>

Next ==
    \/ GetRecentFiles
    \/ EnterInspectFiles
    \/ OpenFile
    \/ ReadFails
    \/ \E e \in Elements : WalkLink(e)
    \/ \E e \in Elements : WalkHeading(e)
    \/ \E e \in Elements : SkipElement(e)
    \/ EndWalk
    \/ CheckLink
    \/ EndLinks
    \/ Report

Spec == Init /\ [][Next]_vars

-----------------------------------------------------------------------------
(* parse_url applied to a link and then to its own result *)

InitUrl ==
    /\ pc = "url"
    /\ input \in UrlInputs
    /\ listing = <<>>
    /\ count = 0
    /\ file_list = <<>>
    /\ fi = 0
    /\ strict_mode = TRUE
    /\ urls = <<>>
    /\ li = 0
    /\ linkset = EmptyDict
    /\ warnings = <<>>
    /\ exit_code = -1
    /\ nelems = 0
    /\ nlinks = 0
    /\ hist = InitHist

\* trimmed_url = parse_url(link); urls.append(trimmed_url), on the link first
\* and on the last result after that
ParseUrlCall ==
    /\ pc = "url"
    /\ Len(urls) < 2
    /\ LET r == parse_url(IF urls = <<>> THEN input ELSE urls[Len(urls)],
                          warnings)
       IN /\ urls' = Append(urls, r.ret)
          /\ warnings' = r.log
    /\ hist' = [hist EXCEPT !.mark = Append(@, Len(warnings))]
    /\ UNCHANGED <<pc, listing, count, file_list, input, fi, strict_mode, li,
                   linkset, exit_code, nelems, nlinks>>

NextUrl == ParseUrlCall

SpecUrl == InitUrl /\ [][NextUrl]_vars

-----------------------------------------------------------------------------
(* Reading the log and the history *)

IsMalformed(w) == w[1] = MsgMalformed
IsTracking(w) == w[1] = MsgTracking
IsSimplify(w) == w[1] = MsgSimplify
IsDuplicate(w) == w[1] = MsgDuplicate

\* the parts of a duplicate message
DupLink(w) == w[2]
DupFile(w) == w[4]
DupPrevious(w) == w[6]

Ended == pc \in {"exited", "aborted"}

\* the number of positions of the sequence s that hold x
Occurrences(s, x) == Cardinality({i \in DOMAIN s : s[i] = x})

\* the normalised links met in strict sections so far, over all files
StrictSeen == UNION {Range(hist.strict_links[f]) : f \in DOMAIN hist.strict_links}

\* the files, by position in file_list, whose strict sections hold link
FilesWith(link) ==
    {f \in DOMAIN hist.strict_links : link \in Range(hist.strict_links[f])}

FirstFileWith(link) ==
    CHOOSE f \in FilesWith(link) : \A g \in FilesWith(link) : f <= g

\* the duplicate messages about link that name file as the current file
DupsIn(link, file) ==
    {i \in DOMAIN warnings :
        /\ IsDuplicate(warnings[i])
        /\ DupLink(warnings[i]) = link
        /\ DupFile(warnings[i]) = file}

DupsOf(link) ==
    {i \in DOMAIN warnings :
        IsDuplicate(warnings[i]) /\ DupLink(warnings[i]) = link}

-----------------------------------------------------------------------------
(* C1 *)

\* C1, as stated: whenever the process has ended, its exit code is non-zero
\* if and only if the log holds at least one warning.
C1_NonZeroIffWarned ==
    Ended => ((exit_code # 0) <=> (Len(warnings) > 0))

\* C1, amended: a run that reaches the end of the __main__ block exits with
\* 1 if the log holds a warning and with 0 if it holds none; a run ended by
\* an exception (no file, no matching file, an unreadable file) exits with 1
\* whatever the log holds, and a run ended by get_recent_files' exception
\* does so with an empty log.
C1_ExitCode ==
    /\ pc = "exited" => /\ Len(warnings) > 0 => exit_code = 1
                        /\ Len(warnings) = 0 => exit_code = 0
    /\ pc = "aborted" => exit_code = 1
    /\ pc = "aborted" /\ fi = 0 /\ file_list = <<>> => warnings = <<>>
    /\ ~Ended => exit_code = -1

\* a run that inspected a file, recorded a warning and exited with 1
C1_Witness ==
    pc = "exited" /\ fi >= 1 /\ Len(warnings) > 0 /\ exit_code = 1

-----------------------------------------------------------------------------
(* C7 *)

\* the names of the listing that match the date pattern
Matching == {listing[i] : i \in {j \in DOMAIN listing : RE_FILENAME_match(listing[j])}}

Min(a, b) == IF a <= b THEN a ELSE b

\* C7: get_recent_files returns exactly the min(N, M) lexicographically-last
\* matching names (as paths under the directory), in ascending order, for a
\* listing with M >= 1 matching names and every count N >= 0.
C7_RecentFiles ==
    pc = "got_files" =>
        LET names == {n \in Matching : path_join(Dir, n) \in Range(file_list)}
        IN /\ Len(file_list) = Min(count, Cardinality(Matching))
           /\ Cardinality(names) = Len(file_list)
           /\ \A n \in names : \A m \in Matching \ names : str_lt(m, n)
           /\ \A i \in 1..(Len(file_list) - 1) :
                 str_lt(file_list[i], file_list[i + 1])

-----------------------------------------------------------------------------
(* C2 *)

\* C2, as stated: every duplicate warning names a previous file that is not
\* the current file, so a link repeated inside a single file and nowhere
\* else produces no duplicate warning.
C2_PreviousFileDiffers ==
    \A i \in DOMAIN warnings :
        IsDuplicate(warnings[i]) => DupPrevious(warnings[i]) # DupFile(warnings[i])

\* C2, amended: a duplicate warning is emitted for every occurrence of a
\* normalised link in strict sections after its first occurrence, whether
\* the first occurrence is in an earlier file or earlier in the same file.
\* Once a file's links are done, the file in which a link first occurs has
\* one warning fewer than occurrences, every later file has as many warnings
\* as occurrences, and every warning names the file of the first occurrence
\* as the previous file; so a link occurring n >= 2 times in a single file
\* and in no other produces n - 1 warnings that name that same file.
C2_DuplicatePerRepeat ==
    pc \in {"files", "exited"} =>
        /\ \A i \in DOMAIN warnings :
              IsDuplicate(warnings[i]) => DupLink(warnings[i]) \in StrictSeen
        /\ \A link \in StrictSeen :
              LET first == FirstFileWith(link) IN
              /\ \A f \in DOMAIN hist.strict_links :
                    Cardinality(DupsIn(link, file_list[f])) =
                        Occurrences(hist.strict_links[f], link)
                        - (IF f = first THEN 1 ELSE 0)
              /\ \A i \in DupsOf(link) :
                    DupPrevious(warnings[i]) = file_list[first]

\* one file inspected, a link twice in its strict sections, and a duplicate
\* warning that names the file itself as the previous file
C2_Witness ==
    /\ pc = "files"
    /\ fi = 1
    /\ \E link \in StrictSeen :
          /\ Occurrences(hist.strict_links[1], link) = 2
          /\ \E i \in DupsOf(link) :
                DupPrevious(warnings[i]) = DupFile(warnings[i])

-----------------------------------------------------------------------------
(* C3 *)

\* every entry of linkset is the first file that holds the link in a strict
\* section; and once a file's links are done, a link met at most once per
\* file has one duplicate warning in each file after its first and none in
\* the first, all naming the first file
C3_Counted ==
    /\ \A link \in DOMAIN linkset :
          link \in StrictSeen /\ linkset[link] = file_list[FirstFileWith(link)]
    /\ pc \in {"files", "exited"} =>
          \A link \in StrictSeen :
              (\A f \in DOMAIN hist.strict_links :
                    Occurrences(hist.strict_links[f], link) <= 1)
              => LET first == FirstFileWith(link) IN
                 /\ link \in DOMAIN linkset
                 /\ Cardinality(DupsOf(link)) = Cardinality(FilesWith(link)) - 1
                 /\ DupsIn(link, file_list[first]) = {}
                 /\ \A f \in FilesWith(link) \ {first} :
                       Cardinality(DupsIn(link, file_list[f])) = 1
                 /\ \A i \in DupsOf(link) :
                       DupPrevious(warnings[i]) = file_list[first]

\* a step leaves every entry linkset holds as it is
C3_EntryKept ==
    \A link \in DOMAIN linkset :
        link \in DOMAIN linkset' /\ linkset'[link] = linkset[link]

\* C3: a link met exactly once in the strict sections of each of k files
\* has, once those files' links are done, k - 1 duplicate warnings, one in
\* each file after the first, all naming the first file; its linkset entry
\* is the first file, and an entry of linkset, once made, is never changed
\* or removed.
C3_FirstFileNamed == [] C3_Counted /\ [][C3_EntryKept]_vars

\* three files inspected, one link once in each, two duplicate warnings
C3_Witness ==
    /\ pc = "exited"
    /\ Len(file_list) = 3
    /\ \E link \in StrictSeen :
          /\ \A f \in 1..3 : Occurrences(hist.strict_links[f], link) = 1
          /\ Cardinality(DupsOf(link)) = 2
          /\ linkset[link] = file_list[1]

-----------------------------------------------------------------------------
(* C4 *)

\* a step of the walk over a link element while the flag is not set
NonStrictLinkStep ==
    /\ pc = "walk"
    /\ pc' = "walk"
    /\ nelems' = nelems + 1
    /\ hist'.elem = "a"
    /\ ~strict_mode

\* linkset and the duplicate warnings only hold links met in the strict
\* state
C4_OnlyStrictLinks ==
    /\ \A link \in DOMAIN linkset : link \in StrictSeen
    /\ \A i \in DOMAIN warnings :
          IsDuplicate(warnings[i]) => DupLink(warnings[i]) \in StrictSeen

\* a step over a link element in the non-strict state calls parse_url no
\* more and leaves urls, the log, linkset and the flag as they are
C4_Dropped ==
    NonStrictLinkStep =>
        /\ UNCHANGED <<urls, warnings, linkset, strict_mode>>
        /\ hist'.calls = hist.calls
        /\ hist'.cause = hist.cause

\* C4: a link element met in the non-strict state is dropped: parse_url is
\* not called, urls, the log and linkset stay as they are; and linkset and
\* the duplicate warnings only ever hold links met in the strict state,
\* however often a link is repeated in non-strict sections.
C4_NonStrictLinkDropped == [] C4_OnlyStrictLinks /\ [][C4_Dropped]_vars

\* a run over at least two files which all hold the same link in a
\* non-strict section, ended with an empty linkset and an empty log
C4_Witness ==
    /\ pc = "exited"
    /\ Len(file_list) >= 2
    /\ hist.droppedAll # {}
    /\ hist.calls = 0
    /\ linkset = EmptyDict
    /\ warnings = <<>>
    /\ exit_code = 0

-----------------------------------------------------------------------------
(* C8 *)

\* the place of a letter in the alphabet, 0 for any other character
LetterNo(c) ==
    IF IndexIn(Lowers, c) > 0 THEN IndexIn(Lowers, c) ELSE IndexIn(Uppers, c)

SameIgnoringCase(a, b) ==
    /\ Len(a) = Len(b)
    /\ \A i \in DOMAIN a :
          \/ a[i] = b[i]
          \/ LetterNo(a[i]) > 0 /\ LetterNo(a[i]) = LetterNo(b[i])

\* the flag the claim gives a walk whose last heading has this text
ExpectedStrict(title) ==
    /\ title # NoHeading
    /\ title # None
    /\ \E t \in STRICT_TITLES : SameIgnoringCase(title, t)

\* C8, as stated: during the walk the flag is false before any heading and
\* otherwise tells whether the text of the last heading element met, of any
\* level, matches a strict title ignoring case.
C8_FlagOfLastHeading ==
    pc = "walk" => strict_mode = ExpectedStrict(hist.lastAny)

\* C8, amended: during the walk the flag is false before any heading of
\* level 1 to 4 and otherwise tells whether the text of the last heading
\* element of level 1 to 4 matches a strict title ignoring case; headings of
\* level 5 and 6 are not looked at and leave the flag as it is, as does a
\* link; and the links collected are those met while the flag was true.
C8_FlagOfLastWalkedHeading ==
    pc = "walk" =>
        /\ strict_mode = ExpectedStrict(hist.last14)
        /\ urls = hist.strict_links[fi]

\* the walk met a strict heading of level 1 to 4, then a heading of level 5
\* with another text, and took a link after that
C8_Witness ==
    /\ pc = "walk"
    /\ strict_mode
    /\ hist.lastAny # hist.last14
    /\ ~ExpectedStrict(hist.lastAny)
    /\ hist.elem = "a"
    /\ urls # <<>>

-----------------------------------------------------------------------------
(* C10 *)

Rank(w) ==
    IF IsMalformed(w) THEN 1
    ELSE IF IsTracking(w) THEN 2
    ELSE IF IsSimplify(w) THEN 3
    ELSE 4

\* the log in the order of production, hist.cause[i] telling the file and
\* the link during which message i was logged
C10_Ordered ==
    /\ Len(hist.cause) = Len(warnings)
    /\ \A i \in DOMAIN warnings :
          /\ IsDuplicate(warnings[i]) <=> hist.cause[i].phase = "duplicate"
          /\ IsDuplicate(warnings[i]) =>
                DupFile(warnings[i]) = file_list[hist.cause[i].file]
    /\ \A i, j \in DOMAIN warnings :
          i < j =>
            LET a == hist.cause[i]
                b == hist.cause[j]
            IN /\ a.file <= b.file
               /\ a.file = b.file /\ a.phase = "duplicate" => b.phase = "duplicate"
               /\ a.file = b.file /\ a.phase = b.phase => a.link <= b.link
               /\ a.file = b.file /\ a.phase = "normalise" /\ b.phase = "normalise"
                  /\ a.link = b.link => Rank(warnings[i]) < Rank(warnings[j])

\* a step leaves the messages the log holds in place
C10_Appended ==
    /\ Len(warnings') >= Len(warnings)
    /\ \A i \in DOMAIN warnings : warnings'[i] = warnings[i]

\* C10: the log only grows at its end; the warnings of an earlier file come
\* before those of a later file; within a file the normaliser's warnings
\* come before the duplicate warnings; within a link the order is malformed,
\* tracking parameters, simplification.
C10_LogInOrder == [] C10_Ordered /\ [][C10_Appended]_vars

\* a link of the first file logged all three normaliser warnings in a row
\* and the second file logged a duplicate warning after them
C10_Witness ==
    /\ pc = "exited"
    /\ \E i \in DOMAIN warnings :
          /\ i + 3 <= Len(warnings)
          /\ IsMalformed(warnings[i])
          /\ IsTracking(warnings[i + 1])
          /\ IsSimplify(warnings[i + 2])
          /\ hist.cause[i].file = 1
          /\ \E j \in (i + 3)..Len(warnings) :
                IsDuplicate(warnings[j]) /\ hist.cause[j].file = 2

-----------------------------------------------------------------------------
(* C5, C6, C9: parse_url *)

\* the part of the log the first call of parse_url wrote
FirstLog ==
    SubSeq(warnings, 1, IF Len(hist.mark) >= 2 THEN hist.mark[2] ELSE Len(warnings))

\* the part of the log the second call wrote
SecondLog ==
    IF Len(hist.mark) >= 2
    THEN SubSeq(warnings, hist.mark[2] + 1, Len(warnings))
    ELSE <<>>

Count(log, Is(_)) == Cardinality({i \in DOMAIN log : Is(log[i])})

\* the parameters written in a query string, each with its name and value
\* decoded, a parameter without '=' or without a value having the value ''
RECURSIVE written(_)
written(pieces) ==
    IF pieces = <<>> THEN <<>>
    ELSE LET piece == pieces[1]
             eq == find(piece, "=", 1)
             name == IF eq = 0 THEN piece ELSE slice(piece, 1, eq - 1)
             value == IF eq = 0 THEN <<>> ELSE Tail_from(piece, eq + 1)
         IN (IF piece = <<>> THEN <<>>
             ELSE << [name |-> unquote(replace(name, "+", " ")),
                      value |-> unquote(replace(value, "+", " "))] >>)
            \o written(Tail(pieces))

Written(query) == written(split(query, <<"&">>[1]))

NamesIn(params) == {params[i].name : i \in DOMAIN params}

\* the values a name has among the parameters, in order
ValuesOf(params, name) ==
    LET own == SelectSeq(params, LAMBDA p : p.name = name)
    IN [i \in DOMAIN own |-> own[i].value]

QueryOf(url) == urlsplit(url).query

\* C5: parse_url applied to its own result returns that result again, and
\* the second call logs no 'link can be simplified' warning.
C5_Idempotent ==
    Len(urls) = 2 =>
        /\ urls[2] = urls[1]
        /\ Count(SecondLog, IsSimplify) = 0

\* C6: for a link whose query string is not empty and names block-listed
\* parameters only, whatever their values, parse_url returns a link with an
\* empty query and logs exactly one 'found tracking parameters' warning and
\* exactly one 'link can be simplified' warning.
C6_TrackingOnlyQuery ==
    /\ Len(urls) >= 1
    /\ QueryOf(input) # <<>>
    /\ NamesIn(Written(QueryOf(input))) \subseteq TRACKING_PARAMETERS
    => /\ QueryOf(urls[1]) = <<>>
       /\ Count(FirstLog, IsTracking) = 1
       /\ Count(FirstLog, IsSimplify) = 1

\* C9: for a link with a non-empty query string, the query of the link
\* parse_url returns names no block-listed parameter and holds every other
\* parameter of the original query with its values in their order.
C9_OnlyTrackingRemoved ==
    Len(urls) >= 1 /\ QueryOf(input) # <<>> =>
        LET before == Written(QueryOf(input))
            after == Written(QueryOf(urls[1]))
        IN /\ NamesIn(after) \cap TRACKING_PARAMETERS = {}
           /\ NamesIn(after) \subseteq NamesIn(before)
           /\ \A name \in NamesIn(before) \ TRACKING_PARAMETERS :
                 ValuesOf(after, name) = ValuesOf(before, name)
====
